---- MODULE Spec2Model ----
(***************************************************************************)
(* Model of html_to_dataframe.py: a saved marketplace search page is read, *)
(* its listing cards are turned into records (extract_info_from_divs), the *)
(* records into a table (create_dataframe), the table into a plot.         *)
(*                                                                         *)
(* Texts are sequences of one-character strings.  A Python float is the    *)
(* exact decimal [n, s] standing for n / 10^s with no trailing zero in the *)
(* fraction: two decimal literals of a few digits are equal as floats      *)
(* exactly when these are equal.  An optional value is a sequence of       *)
(* length 0 (absent) or 1.  The page is held as the element tree the HTML  *)
(* parser delivers: the divs in document order, each with the descendants  *)
(* the extractor looks up.                                                 *)
(***************************************************************************)
EXTENDS Integers, Sequences, FiniteSets, TLC

VARIABLES pc, file, html, divs, info_list, df, csv_written, plot_rows

vars == <<pc, file, html, divs, info_list, df, csv_written, plot_rows>>

(***************************************************************************)
(* Bounds of the model.                                                    *)
(***************************************************************************)
\* longest text of a paragraph or span whose text is enumerated in full
MaxLen == 4
\* most divs of a page built from the sample cards
MaxCards == 3

(***************************************************************************)
(* Python string and number primitives, on the characters the model uses.  *)
(***************************************************************************)
Digits == {"0", "1", "2", "3", "4", "5", "6", "7", "8", "9"}

DigitVal(c) ==
  CASE c = "0" -> 0 [] c = "1" -> 1 [] c = "2" -> 2 [] c = "3" -> 3
    [] c = "4" -> 4 [] c = "5" -> 5 [] c = "6" -> 6 [] c = "7" -> 7
    [] c = "8" -> 8 [] c = "9" -> 9

IsSpace(c) == c = " "

\* str.lstrip()
RECURSIVE LStrip(_)
LStrip(s) == IF s # << >> /\ IsSpace(Head(s)) THEN LStrip(Tail(s)) ELSE s

\* str.rstrip()
RECURSIVE RStrip(_)
RStrip(s) ==
  IF s # << >> /\ IsSpace(s[Len(s)]) THEN RStrip(SubSeq(s, 1, Len(s) - 1)) ELSE s

\* str.strip()
Strip(s) == RStrip(LStrip(s))

\* str.replace(old, new) for a one-character old; new is a text (maybe empty)
RECURSIVE Replace(_, _, _)
Replace(s, old, new) ==
  IF s = << >> THEN << >>
  ELSE (IF Head(s) = old THEN new ELSE <<Head(s)>>) \o Replace(Tail(s), old, new)

\* index of the first whitespace of s from i on, Len(s) + 1 if none
RECURSIVE FirstSpace(_, _)
FirstSpace(s, i) ==
  IF i > Len(s) THEN i ELSE IF IsSpace(s[i]) THEN i ELSE FirstSpace(s, i + 1)

\* str.split(maxsplit=1): split on the first whitespace run, into at most 2
\* parts.  The word before the run and what follows it:
SplitParts(word, rest) == IF rest = << >> THEN <<word>> ELSE <<word, rest>>

\* t has no leading whitespace and its first whitespace at i
SplitAt(t, i) ==
  IF t = << >> THEN << >>
  ELSE SplitParts(SubSeq(t, 1, i - 1), LStrip(SubSeq(t, i, Len(t))))

SplitStripped(t) == SplitAt(t, FirstSpace(t, 1))

SplitMax1(s) == SplitStripped(LStrip(s))

\* the digits of a text read as a natural number
RECURSIVE DigitsToNat(_, _)
DigitsToNat(s, acc) ==
  IF s = << >> THEN acc ELSE DigitsToNat(Tail(s), 10 * acc + DigitVal(Head(s)))

\* n / 10^s without trailing zeros in the fraction
RECURSIVE Normalise(_, _)
Normalise(n, s) ==
  IF s > 0 /\ n % 10 = 0 THEN Normalise(n \div 10, s - 1) ELSE [n |-> n, s |-> s]

Raised == [ok |-> FALSE, v |-> << >>]
Value(v) == [ok |-> TRUE, v |-> <<v>>]

\* number of characters after the first "." of s (0 when s has none)
RECURSIVE AfterPoint(_)
AfterPoint(s) ==
  IF s = << >> THEN 0 ELSE IF Head(s) = "." THEN Len(s) - 1 ELSE AfterPoint(Tail(s))

\* float(s): surrounding whitespace is ignored; digits with at most one "."
\* and at least one digit convert, every other text raises ValueError.
\* (Signs, exponents, "inf", "nan" and "_" need characters the model's
\* texts do not hold.)
\* float of a text without surrounding whitespace
FloatOf(t) ==
  IF /\ \A i \in 1..Len(t) : t[i] \in Digits \cup {"."}
     /\ Len(SelectSeq(t, LAMBDA c : c = ".")) <= 1
     /\ Len(SelectSeq(t, LAMBDA c : c \in Digits)) >= 1
  THEN Value(Normalise(DigitsToNat(SelectSeq(t, LAMBDA c : c \in Digits), 0),
                       AfterPoint(t)))
  ELSE Raised

PyFloat(s) == FloatOf(Strip(s))

\* int(s): surrounding whitespace is ignored; a non-empty run of digits
\* converts, every other text raises ValueError.
\* int of a text without surrounding whitespace
IntOf(t) ==
  IF t # << >> /\ \A i \in 1..Len(t) : t[i] \in Digits
  THEN Value(DigitsToNat(t, 0))
  ELSE Raised

PyInt(s) == IntOf(Strip(s))

NumChars == Digits \cup {".", ","}

\* the longest prefix of s made of NumChars
RECURSIVE NumPrefix(_)
NumPrefix(s) ==
  IF s # << >> /\ Head(s) \in NumChars THEN <<Head(s)>> \o NumPrefix(Tail(s)) ELSE << >>

\* mutant of ReSearchNum: re.match, which looks at the start of s only
ReMatchNum(s) ==
  IF s # << >> /\ Head(s) \in NumChars THEN <<NumPrefix(s)>> ELSE << >>

\* re.search(r'[\d.,]+', s): the match (group 0) as an optional text
RECURSIVE ReSearchNum(_)
ReSearchNum(s) ==
  IF s = << >> THEN << >>
  ELSE IF Head(s) \in NumChars THEN <<NumPrefix(s)>>
  ELSE ReSearchNum(Tail(s))

\* text.replace('.', '').replace(',', '.')
LocaleToPoint(s) == Replace(Replace(s, ".", << >>), ",", <<".">>)

(***************************************************************************)
(* Records.                                                                *)
(***************************************************************************)
Columns == <<"product_name", "currency", "commission", "max_price",
             "comment_rating", "comments", "temperature", "product_url", "img_src">>

ColumnSet == {Columns[i] : i \in 1..Len(Columns)}

\* info = {}
EmptyInfo == [c \in ColumnSet |-> << >>]

Has(info, c) == info[c] # << >>

\* info[c] = v
Put(info, c, v) == [info EXCEPT ![c] = <<v>>]

Zero == [n |-> 0, s |-> 0]

BaseUrl == "https://app.hotmart.com"

(***************************************************************************)
(* extract_info_from_divs                                                  *)
(***************************************************************************)
\* ' '.join(markup): the class attribute's values as one string
RECURSIVE Join(_)
Join(markup) ==
  IF markup = << >> THEN << >>
  ELSE IF Len(markup) = 1 THEN markup
  ELSE <<Head(markup), " ">> \o Join(Tail(markup))

\* the class_name _main passes; the string is held as its names and the
\* blanks between them
ClassName == <<"hot-col-xl-3", " ", "hot-col-lg-4", " ", "hot-col-md-6", " ",
               "hot-col-sm-12", " ", "_py-3">>

\* mutant of MatchesClass: a div matches when it carries every name of the
\* string, in any order and among other names
MatchesClass_AllNames(markup, match_against) ==
  \A k \in 1..Len(match_against) :
    match_against[k] = " " \/ \E i \in 1..Len(markup) : markup[i] = match_against[k]

\* find_all('div', class_=class_name) on one div: the parser's match of a
\* multi-valued attribute against a string is a match of one of the values,
\* or else of the values joined by a blank
MatchesClass(markup, match_against) ==
  \/ \E i \in 1..Len(markup) : <<markup[i]>> = match_against
  \/ Join(markup) = match_against

\* soup.find_all('div', class_=class_name)
FindAllDivs(elements, class_name) ==
  SelectSeq(elements, LAMBDA d : MatchesClass(d.classes, class_name))

Continue(info) == [ok |-> TRUE, info |-> info]
Abort(info) == [ok |-> FALSE, info |-> info]

\* info[c] = <the conversion>: the key is set, or the conversion's
\* ValueError leaves the loop
PutConverted(info, c, conv) ==
  IF conv.ok THEN Continue(Put(info, c, conv.v[1])) ELSE Abort(info)

\* lines 37-39
ExtractUrl(div, info) ==
  IF div.a # << >> /\ div.a[1] # << >>
  THEN Put(info, "product_url", BaseUrl \o div.a[1][1])
  ELSE info

\* lines 42-44
ExtractImg(div, info) ==
  IF div.img # << >> /\ div.img[1] # << >>
  THEN Put(info, "img_src", div.img[1][1])
  ELSE info

\* lines 47-49
ExtractName(div, info) ==
  IF div.name # << >> THEN Put(info, "product_name", div.name[1]) ELSE info

\* mutant of PriceFromParts: a text without whitespace gets the default
\* currency
PriceFromParts_DefaultCurrency(info, p_text, parts) ==
  IF Len(parts) = 2
  THEN PutConverted(Put(info, "currency", parts[1]), "commission",
                    PyFloat(LocaleToPoint(parts[2])))
  ELSE PutConverted(Put(info, "currency", <<" ">>), "commission",
                    PyFloat(LocaleToPoint(p_text)))

\* lines 56-60
PriceFromParts(info, p_text, parts) ==
  IF Len(parts) = 2
  THEN PutConverted(Put(info, "currency", parts[1]), "commission",
                    PyFloat(LocaleToPoint(parts[2])))
  ELSE PutConverted(info, "commission", PyFloat(LocaleToPoint(p_text)))

\* lines 54-60
PriceFromText(info, p_text) == PriceFromParts(info, p_text, SplitMax1(p_text))

\* lines 52-63
ExtractPrice(div, info) ==
  IF div.price # << >>
  THEN PriceFromText(info, Strip(div.price[1]))
  ELSE Continue(Put(Put(info, "currency", <<" ">>), "commission", Zero))

\* lines 69-74
MaxPriceFromMatch(info, match) ==
  IF match # << >>
  THEN PutConverted(info, "max_price", PyFloat(LocaleToPoint(match[1])))
  ELSE Continue(Put(info, "max_price", Zero))

\* lines 66-76
ExtractMaxPrice(div, info) ==
  IF div.maxp # << >>
  THEN MaxPriceFromMatch(info, ReSearchNum(Strip(div.maxp[1])))
  ELSE Continue(Put(info, "max_price", Zero))

\* mutant of Temperature: the temperature is read from the last span
Temperature_LastSpan(rated, comment_rating_spans) ==
  IF ~rated.ok THEN rated
  ELSE IF Len(comment_rating_spans) > 1
  THEN PutConverted(rated.info, "temperature",
                    PyInt(Replace(Strip(comment_rating_spans[Len(comment_rating_spans)]),
                                  "°", << >>)))
  ELSE Continue(Put(rated.info, "temperature", 0))

\* lines 84-88, after the comment_rating of line 82: rated
Temperature(rated, comment_rating_spans) ==
  IF ~rated.ok THEN rated
  ELSE IF Len(comment_rating_spans) > 1
  THEN PutConverted(rated.info, "temperature",
                    PyInt(Replace(Strip(comment_rating_spans[2]), "°", << >>)))
  ELSE Continue(Put(rated.info, "temperature", 0))

\* lines 79-91
ExtractRating(div, info) ==
  IF div.spans # << >>
  THEN Temperature(PutConverted(info, "comment_rating", PyFloat(Strip(div.spans[1]))),
                   div.spans)
  ELSE Continue(Put(Put(info, "comment_rating", Zero), "temperature", 0))

\* mutant of ExtractComments: no default when the span is absent
ExtractComments_NoDefault(div, info) ==
  IF div.comments # << >>
  THEN PutConverted(info, "comments",
         PyInt(Replace(Replace(Replace(Strip(div.comments[1]), "(", << >>), ")", << >>),
                       ".", << >>)))
  ELSE Continue(info)

\* lines 94-100
ExtractComments(div, info) ==
  IF div.comments # << >>
  THEN PutConverted(info, "comments",
         PyInt(Replace(Replace(Replace(Strip(div.comments[1]), "(", << >>), ")", << >>),
                       ".", << >>)))
  ELSE Continue(Put(info, "comments", 0))

\* each later block of the loop body runs unless an earlier one raised
ThenMaxPrice(r, div) == IF r.ok THEN ExtractMaxPrice(div, r.info) ELSE r
ThenRating(r, div) == IF r.ok THEN ExtractRating(div, r.info) ELSE r
ThenComments(r, div) == IF r.ok THEN ExtractComments(div, r.info) ELSE r

\* the body of the loop over the cards, lines 34-100: the record of one card,
\* or the exception one of its conversions raised
ExtractCard(div) ==
  ThenComments(
    ThenRating(
      ThenMaxPrice(
        ExtractPrice(div, ExtractName(div, ExtractImg(div, ExtractUrl(div, EmptyInfo)))),
        div),
      div),
    div)

\* "if info": a dict with no key is false
Truthy(info) == \E c \in ColumnSet : Has(info, c)

ErrorString == [kind |-> "error", recs |-> << >>]
ListOf(recs) == [kind |-> "list", recs |-> recs]

\* lines 103-104
AppendIfAny(result, info) == IF Truthy(info) THEN Append(result, info) ELSE result

\* mutant of ExtractLoop: a card whose conversion raises is left out and the
\* loop goes on
RECURSIVE ExtractLoop_SkipFailed(_, _)
ExtractLoop_SkipFailed(cards, result) ==
  IF cards = << >> THEN ListOf(result)
  ELSE IF ~ExtractCard(Head(cards)).ok THEN ExtractLoop_SkipFailed(Tail(cards), result)
  ELSE ExtractLoop_SkipFailed(Tail(cards),
                              AppendIfAny(result, ExtractCard(Head(cards)).info))

\* the loop of lines 33-104 and its two exits: the list (line 106), or the
\* error string of the handler at lines 108-109
RECURSIVE ExtractLoop(_, _)
ExtractLoop(cards, result) ==
  IF cards = << >> THEN ListOf(result)
  ELSE IF ~ExtractCard(Head(cards)).ok THEN ErrorString
  ELSE ExtractLoop(Tail(cards), AppendIfAny(result, ExtractCard(Head(cards)).info))

\* what the call leaves: the cards found (the local divs) and the result
FoundAndResult(found) == [divs |-> found, result |-> ExtractLoop(found, << >>)]

\* lines 27-109
extract_info_from_divs(markup, class_name) ==
  FoundAndResult(FindAllDivs(markup.divs, class_name))

(***************************************************************************)
(* get_file_text, create_dataframe, create_interactive_scatter_plot        *)
(***************************************************************************)
Returned(text, elements) == [raised |-> FALSE, text |-> text, divs |-> elements]
Propagated == [raised |-> TRUE, text |-> "", divs |-> << >>]

\* mutant of get_file_text: only FileNotFoundError is handled
get_file_text_NoCatchAll(f) ==
  IF f.status = "ok" THEN Returned("content", f.divs)
  ELSE IF f.status = "missing" THEN Returned("ERROR: File Not Found!", << >>)
  ELSE Propagated

\* lines 16-23: the content, or the text of one of the two handlers; the
\* error texts hold no markup, so no div
get_file_text(f) ==
  IF f.status = "ok" THEN Returned("content", f.divs)
  ELSE IF f.status = "missing" THEN Returned("ERROR: File Not Found!", << >>)
  ELSE Returned("ERROR: e", << >>)

NoTable == [kind |-> "raised", cols |-> {}, rows |-> << >>]
Table(cols, rows) == [kind |-> "table", cols |-> cols, rows |-> rows]

\* pd.DataFrame(info_list), line 115: a string is no valid data; the
\* columns are the keys of the records, a key a record lacks is NaN there
DataFrameOf(data) ==
  IF data.kind # "list" THEN NoTable
  ELSE Table({c \in ColumnSet : \E i \in 1..Len(data.recs) : Has(data.recs[i], c)},
             data.recs)

\* mutant of KeepFirst: no row is dropped
KeepAll(rows, key, seen) == rows

\* the rows whose key is not among seen, nor the key of an earlier row; NaN
\* keys are equal
RECURSIVE KeepFirst(_, _, _)
KeepFirst(rows, key, seen) ==
  IF rows = << >> THEN << >>
  ELSE IF Head(rows)[key] \in seen THEN KeepFirst(Tail(rows), key, seen)
  ELSE <<Head(rows)>> \o KeepFirst(Tail(rows), key, seen \cup {Head(rows)[key]})

\* df.drop_duplicates(subset=[key]), line 118: an empty frame is returned
\* as it is, a key that is no column raises KeyError
DropDuplicates(t, key) ==
  IF t.kind # "table" THEN t
  ELSE IF t.rows = << >> \/ t.cols = {} THEN t
  ELSE IF key \notin t.cols THEN NoTable
  ELSE Table(t.cols, KeepFirst(t.rows, key, {}))

\* mutant of Reorder: the listed columns the frame has are kept, the others
\* are left out
Reorder_Existing(t, columns) ==
  IF t.kind # "table" THEN t
  ELSE Table({columns[i] : i \in 1..Len(columns)} \cap t.cols, t.rows)

\* df[[...]], lines 121-122: a listed column the frame lacks raises KeyError
Reorder(t, columns) ==
  IF t.kind # "table" THEN t
  ELSE IF \E i \in 1..Len(columns) : columns[i] \notin t.cols THEN NoTable
  ELSE Table({columns[i] : i \in 1..Len(columns)}, t.rows)

\* lines 125-127
Export(t, csv_file_name) == [df |-> t, csv |-> t.kind = "table" /\ csv_file_name # ""]

\* lines 113-127: the table and whether the CSV file was written
create_dataframe(data, csv_file_name) ==
  Export(Reorder(DropDuplicates(DataFrameOf(data), "product_url"), Columns),
         csv_file_name)

\* a cell > 0 (NaN > 0 is false)
Positive(cell) == cell # << >> /\ cell[1].n > 0

\* line 133
PlotFilter(rows) ==
  SelectSeq(rows, LAMBDA r : Positive(r["comment_rating"]) /\ Positive(r["commission"]))

(***************************************************************************)
(* The pages the model reads.                                              *)
(***************************************************************************)
Strings(A, n) == UNION {[1..k -> A] : k \in 0..n}

TextChars == {"1", ".", ",", " ", "x"}
TempChars == {"1", "°", ".", " ", "x"}
CommentChars == {"1", "(", ")", ".", " "}

CardClasses == <<"hot-col-xl-3", "hot-col-lg-4", "hot-col-md-6", "hot-col-sm-12", "_py-3">>

\* a well-formed card
BaseCard ==
  [classes |-> CardClasses,
   a |-> << <<"/p1">> >>,
   img |-> << <<"i1.png">> >>,
   name |-> <<"n1">>,
   price |-> << <<"x", " ", "1", ",", "1">> >>,
   maxp |-> << <<"x", " ", "1", ".", "1", "1", "1", ",", "1">> >>,
   spans |-> << <<"1", ".", "1">>, <<"1", "1", "°">> >>,
   comments |-> << <<"(", "1", ".", "1", "1", "1", ")">> >>]

Optional(S) == {<< >>} \cup {<<t>> : t \in S}

\* the span lists of the rating family: none, one span of any text, or the
\* well-formed first span, a second of any text and maybe a third
RatingSpans ==
  {<< >>}
    \cup {<<t>> : t \in Strings(TextChars, MaxLen)}
    \cup {<<BaseCard.spans[1], t>> \o more :
            t \in Strings(TempChars, MaxLen), more \in {<< >>, <<<<"1">>>>}}

\* class lists near the card's: a name dropped, two names exchanged, one more
\* name put in, a name replaced by a longer one that contains it, none
ClassLists ==
  LET n == Len(CardClasses)
      Drop(i) == SubSeq(CardClasses, 1, i - 1) \o SubSeq(CardClasses, i + 1, n)
      Swap(i, j) == [CardClasses EXCEPT ![i] = CardClasses[j], ![j] = CardClasses[i]]
      Insert(i) == SubSeq(CardClasses, 1, i - 1) \o <<"_px-2">> \o SubSeq(CardClasses, i, n)
      Longer(i) == [CardClasses EXCEPT ![i] = CardClasses[i] \o "0"]
  IN  {CardClasses, << >>}
        \cup {Drop(i) : i \in 1..n}
        \cup {Swap(i, j) : i, j \in 1..n}
        \cup {Insert(i) : i \in 1..(n + 1)}
        \cup {Longer(i) : i \in 1..n}

ScanPages ==
  LET D(cl, href) == [BaseCard EXCEPT !.classes = cl, !.a = << <<href>> >>]
  IN  {<<D(c1, "/p1")>> : c1 \in ClassLists}
        \cup {<<D(c1, "/p1"), D(c2, "/p2")>> : c1, c2 \in ClassLists}

\* cards for the pages of several cards
SampleCards ==
  {BaseCard,
   [BaseCard EXCEPT !.a = << <<"/p2">> >>, !.name = <<"n2">>,
                    !.price = << <<"1", "1">> >>, !.spans = << <<"1", "1">> >>],
   [BaseCard EXCEPT !.name = <<"n3">>, !.comments = << >>],
   [BaseCard EXCEPT !.a = << >>, !.name = <<"n4">>],
   [BaseCard EXCEPT !.a = << << >> >>, !.img = << >>, !.name = <<"n5">>],
   [BaseCard EXCEPT !.name = << >>, !.price = << >>],
   [BaseCard EXCEPT !.a = << >>, !.img = << >>, !.name = << >>, !.price = << >>,
                    !.maxp = << >>, !.spans = << >>, !.comments = << >>],
   [BaseCard EXCEPT !.a = << <<"/p6">> >>, !.price = << <<"x", " ", "x">> >>],
   [BaseCard EXCEPT !.a = << <<"/p7">> >>, !.comments = << <<"(", "x", ")">> >>],
   [BaseCard EXCEPT !.classes = <<"hot-col-xl-3">>]}

SamplePages == UNION {[1..k -> SampleCards] : k \in 0..MaxCards}

OkFile(elements) == [status |-> "ok", divs |-> elements]

\* the files _main may find: none, an unreadable one, or a page.  A page is a
\* single card with one paragraph or span holding any text up to MaxLen
\* (or absent), or one of ScanPages, or one of SamplePages.
IsInputFile(f) ==
  \/ \E st \in {"missing", "unreadable"} : f = [status |-> st, divs |-> << >>]
  \/ \E p \in Optional(Strings(TextChars, MaxLen)) :
       f = OkFile(<<[BaseCard EXCEPT !.price = p]>>)
  \/ \E p \in Optional(Strings(TextChars, MaxLen)) :
       f = OkFile(<<[BaseCard EXCEPT !.maxp = p]>>)
  \/ \E sp \in RatingSpans : f = OkFile(<<[BaseCard EXCEPT !.spans = sp]>>)
  \/ \E p \in Optional(Strings(CommentChars, MaxLen)) :
       f = OkFile(<<[BaseCard EXCEPT !.comments = p]>>)
  \/ \E p \in ScanPages : f = OkFile(p)
  \/ \E p \in SamplePages : f = OkFile(p)

(***************************************************************************)
(* _main, lines 171-187                                                    *)
(***************************************************************************)
\* the export file name of lines 179-180
file_name == "analysis\\hotmart_search_timenow"

Init ==
  /\ pc = "read"
  /\ IsInputFile(file)
  /\ html = [text |-> "", divs |-> << >>]
  /\ divs = << >>
  /\ info_list = [kind |-> "unset", recs |-> << >>]
  /\ df = [kind |-> "unset", cols |-> {}, rows |-> << >>]
  /\ csv_written = FALSE
  /\ plot_rows = << >>

\* line 173
GetFileText ==
  /\ pc = "read"
  /\ \E r \in {get_file_text(file)} :
       IF r.raised
       THEN pc' = "failed" /\ UNCHANGED html
       ELSE pc' = "extract" /\ html' = [text |-> r.text, divs |-> r.divs]
  /\ UNCHANGED <<file, divs, info_list, df, csv_written, plot_rows>>

\* line 176
ExtractInfo ==
  /\ pc = "extract"
  /\ \E r \in {extract_info_from_divs(html, ClassName)} :
       divs' = r.divs /\ info_list' = r.result
  /\ pc' = "frame"
  /\ UNCHANGED <<file, html, df, csv_written, plot_rows>>

\* line 183: an exception of create_dataframe ends _main
CreateDataframe ==
  /\ pc = "frame"
  /\ \E r \in {create_dataframe(info_list, file_name)} :
       /\ df' = r.df
       /\ csv_written' = r.csv
       /\ pc' = IF r.df.kind = "table" THEN "plot" ELSE "failed"
  /\ UNCHANGED <<file, html, divs, info_list, plot_rows>>

\* line 187
CreateScatterPlot ==
  /\ pc = "plot"
  /\ plot_rows' = PlotFilter(df.rows)
  /\ pc' = "done"
  /\ UNCHANGED <<file, html, divs, info_list, df, csv_written>>

Next == GetFileText \/ ExtractInfo \/ CreateDataframe \/ CreateScatterPlot

Spec == Init /\ [][Next]_vars

(***************************************************************************)
(* Properties.  The values they name are computed from the texts by        *)
(* position, not with the character-by-character operators of the          *)
(* extractor above.                                                        *)
(***************************************************************************)
Min(S) == CHOOSE x \in S : \A y \in S : x <= y
Max(S) == CHOOSE x \in S : \A y \in S : x >= y

\* t without its leading and trailing blanks
Trim(t) ==
  LET N == {i \in 1..Len(t) : t[i] # " "}
  IN  IF N = {} THEN << >> ELSE SubSeq(t, Min(N), Max(N))

\* the value of a decimal text whose decimal separator is point
DecimalAt(t, point) ==
  LET P == {i \in 1..Len(t) : t[i] = point}
      frac == IF P = {} THEN 0
              ELSE Cardinality({i \in (Min(P) + 1)..Len(t) : t[i] \in Digits})
  IN  Normalise(DigitsToNat(SelectSeq(t, LAMBDA c : c \in Digits), 0), frac)

\* the value of a locale decimal: "." separates thousands, "," the fraction
LocaleValue(t) == DecimalAt(SelectSeq(t, LAMBDA c : c # "."), ",")

\* the value of a decimal written with a point
PlainValue(t) == DecimalAt(Trim(t), ".")

\* the value of the digits of t
IntegerValue(t) == DigitsToNat(SelectSeq(t, LAMBDA c : c \in Digits), 0)

\* the first contiguous run of digits, "." and "," of t, as an optional text
FirstRun(t) ==
  LET N == {i \in 1..Len(t) : t[i] \in NumChars}
  IN  IF N = {} THEN << >>
      ELSE LET a == Min(N)
               b == Max({j \in a..Len(t) : \A k \in a..j : t[k] \in NumChars})
           IN  <<SubSeq(t, a, b)>>

NumericFields == {"commission", "max_price", "comment_rating", "temperature", "comments"}

\* extract_info_from_divs has returned
Extracted == info_list.kind # "unset"
\* it has returned a list
Listed == info_list.kind = "list"
\* create_dataframe has returned or raised
Framed == df.kind # "unset"

\* the records of the list that have a card at their position
Paired == {i \in 1..Len(info_list.recs) : i <= Len(divs)}

\* C1: extract_info_from_divs never surfaces a parse failure: it returns a
\* list with one record per card, every numeric field set, and a field whose
\* text fails to parse holds its default.
C1_ParseFailureNeverSurfaces ==
  Extracted =>
    /\ Listed
    /\ Len(info_list.recs) = Len(divs)
    /\ \A i \in Paired :
         LET d == divs[i]
             r == info_list.recs[i]
         IN  /\ \A c \in NumericFields : Has(r, c)
             /\ ~ExtractPrice(d, EmptyInfo).ok => r["commission"] = <<Zero>>
             /\ ~ExtractMaxPrice(d, EmptyInfo).ok => r["max_price"] = <<Zero>>
             /\ ~ExtractComments(d, EmptyInfo).ok => r["comments"] = <<0>>

\* C2: every record of a returned list holds the five numeric fields, and a
\* field whose element is absent from the card holds its default.
C2_NumericFieldsPopulated ==
  Listed =>
    \A i \in Paired :
      LET d == divs[i]
          r == info_list.recs[i]
      IN  /\ \A c \in NumericFields : Has(r, c)
          /\ d.price = << >> => r["commission"] = <<Zero>>
          /\ d.maxp = << >> => r["max_price"] = <<Zero>>
          /\ d.spans = << >> => r["comment_rating"] = <<Zero>> /\ r["temperature"] = <<0>>
          /\ d.comments = << >> => r["comments"] = <<0>>

\* a card without max_price paragraph and comments span has a record
\* holding both defaults
C2_Witness ==
  /\ Listed
  /\ \E i \in Paired :
       /\ divs[i].maxp = << >> /\ divs[i].comments = << >>
       /\ info_list.recs[i]["max_price"] = <<Zero>>
       /\ info_list.recs[i]["comments"] = <<0>>

\* C3: no rating span: comment_rating 0.0 and temperature 0; one span: its
\* decimal value and temperature 0; two or more: the first span's decimal
\* value and the integer of the second span without the degree mark.
C3_RatingBySpanCount ==
  Listed =>
    \A i \in Paired :
      LET sp == divs[i].spans
          r == info_list.recs[i]
      IN  /\ Len(sp) = 0 => r["comment_rating"] = <<Zero>> /\ r["temperature"] = <<0>>
          /\ Len(sp) = 1 =>
               r["comment_rating"] = <<PlainValue(sp[1])>> /\ r["temperature"] = <<0>>
          /\ Len(sp) >= 2 =>
               /\ r["comment_rating"] = <<PlainValue(sp[1])>>
               /\ r["temperature"] =
                    <<IntegerValue(SelectSeq(Trim(sp[2]), LAMBDA c : c # "°"))>>

\* a card with three spans whose record holds the second span's temperature
C3_Witness ==
  /\ Listed
  /\ \E i \in Paired :
       /\ divs[i].spans = << <<"1", ".", "1">>, <<"1", "1", "°">>, <<"1">> >>
       /\ info_list.recs[i]["comment_rating"] = <<[n |-> 11, s |-> 1]>>
       /\ info_list.recs[i]["temperature"] = <<11>>

\* C4: no price paragraph: currency " " and commission 0.0; a text with
\* whitespace: currency is the part before the first whitespace run and
\* commission the locale value of the rest; a text without whitespace:
\* commission is its locale value and currency is not set.
C4_PriceBranches ==
  Listed =>
    \A i \in Paired :
      LET p == divs[i].price
          r == info_list.recs[i]
      IN  IF p = << >>
          THEN r["currency"] = << <<" ">> >> /\ r["commission"] = <<Zero>>
          ELSE LET u == Trim(p[1])
                   W == {k \in 1..Len(u) : u[k] = " "}
               IN  IF W = {}
                   THEN ~Has(r, "currency") /\ r["commission"] = <<LocaleValue(u)>>
                   ELSE /\ r["currency"] = <<SubSeq(u, 1, Min(W) - 1)>>
                        /\ r["commission"] =
                             <<LocaleValue(Trim(SubSeq(u, Min(W), Len(u))))>>

\* a price text without whitespace: commission set, currency not
C4_Witness ==
  /\ Listed
  /\ \E i \in Paired :
       /\ divs[i].price = << <<"1", ",", "1">> >>
       /\ ~Has(info_list.recs[i], "currency")
       /\ info_list.recs[i]["commission"] = <<[n |-> 11, s |-> 1]>>

\* C5: the table holds exactly the first record of each distinct product_url
\* (the records without one share one key), in their original order.
C5_FirstPerProductUrl ==
  df.kind = "table" =>
    LET recs == info_list.recs
        Kept == {i \in 1..Len(recs) :
                   \A j \in 1..(i - 1) : recs[j]["product_url"] # recs[i]["product_url"]}
        Nth(k) == CHOOSE i \in Kept : Cardinality({j \in Kept : j < i}) = k - 1
    IN  df.rows = [k \in 1..Cardinality(Kept) |-> recs[Nth(k)]]

\* a table that lost a record, and whose records without product_url were
\* taken as one key
C5_Witness ==
  /\ df.kind = "table"
  /\ Len(df.rows) < Len(info_list.recs)
  /\ Cardinality({i \in 1..Len(info_list.recs) :
                    ~Has(info_list.recs[i], "product_url")}) >= 2
  /\ Cardinality({i \in 1..Len(df.rows) : ~Has(df.rows[i], "product_url")}) = 1

\* C6: when one of the nine columns is absent from every record of the batch
\* (the empty batch too), create_dataframe fails: no table, no CSV file.
C6_MissingColumnFails ==
  (Framed /\ Listed
     /\ \E c \in ColumnSet : \A i \in 1..Len(info_list.recs) : ~Has(info_list.recs[i], c))
    => (df.kind = "raised" /\ ~csv_written /\ pc = "failed")

\* a batch with product_url but no product_name has failed
C6_Witness ==
  /\ Framed /\ Listed
  /\ Len(info_list.recs) >= 1
  /\ \A i \in 1..Len(info_list.recs) :
       /\ ~Has(info_list.recs[i], "product_name")
       /\ Has(info_list.recs[i], "product_url")
       /\ Has(info_list.recs[i], "img_src")
  /\ pc = "failed" /\ ~csv_written

\* C7: get_file_text never raises: for a missing or unreadable file it
\* returns an error text, and _main goes on to the extraction with it.
C7_ReadErrorInBand ==
  pc # "read" =>
    /\ file.status = "ok" => html.text = "content" /\ html.divs = file.divs
    /\ file.status = "missing" => html.text = "ERROR: File Not Found!" /\ html.divs = << >>
    /\ file.status = "unreadable" => html.text = "ERROR: e" /\ html.divs = << >>
    /\ pc = "extract" \/ Extracted

\* the extraction has run on the error text of an unreadable file
C7_Witness ==
  /\ file.status = "unreadable"
  /\ html.text = "ERROR: e"
  /\ pc = "frame"
  /\ info_list = ListOf(<< >>)

\* C8: with a max_price paragraph, max_price is the locale value of the
\* first run of digits, "." and "," of the trimmed text, 0.0 without a run;
\* without the paragraph it is 0.0.
C8_MaxPriceFirstRun ==
  Listed =>
    \A i \in Paired :
      LET p == divs[i].maxp
          r == info_list.recs[i]
      IN  IF p = << >> THEN r["max_price"] = <<Zero>>
          ELSE LET run == FirstRun(Trim(p[1]))
               IN  IF run = << >> THEN r["max_price"] = <<Zero>>
                   ELSE r["max_price"] = <<LocaleValue(run[1])>>

\* a text whose run starts after other characters
C8_Witness ==
  /\ Listed
  /\ \E i \in Paired :
       /\ divs[i].maxp = << <<"x", " ", "1", ",">> >>
       /\ info_list.recs[i]["max_price"] = <<[n |-> 1, s |-> 0]>>

\* the div carries every name of the card's class list
CarriesAll(classes) ==
  \A k \in 1..Len(CardClasses) : \E i \in 1..Len(classes) : classes[i] = CardClasses[k]

\* C9 as stated: a div is selected exactly when it carries all the named
\* classes, in any order and among other classes.
C9_SelectedIffCarriesAll ==
  Extracted => divs = SelectSeq(html.divs, LAMBDA d : CarriesAll(d.classes))

\* C9 amended: a div is selected exactly when its class list is the named
\* classes, in the named order, and nothing else.
C9_SelectedIffExactList ==
  Extracted => divs = SelectSeq(html.divs, LAMBDA d : d.classes = CardClasses)

\* of two divs carrying all the names, the one with the names in another
\* order is not selected
C9_Witness ==
  /\ Extracted
  /\ Len(html.divs) = 2
  /\ html.divs[1].classes # CardClasses /\ CarriesAll(html.divs[1].classes)
  /\ html.divs[2].classes = CardClasses
  /\ divs = <<html.divs[2]>>

====
